---- MODULE Spec2Model ----
(***************************************************************************)
(* Authentication / session lifecycle of the user-management service:     *)
(* AuthService (src/src/auth/auth.service.ts) on top of UsersService      *)
(* (src/unnamed/part_016) and the User entity (src/src/users/user.entity), *)
(* with PermissionsGuard (src/src/auth/guards/permissions.guard.ts) over   *)
(* the roles kept by RolesService (src/src/roles/roles.controller.ts).     *)
(***************************************************************************)
EXTENDS Integers, Sequences, FiniteSets, TLC

(* ---------------------------------------------------------------------- *)
(* Bounds                                                                 *)
(* ---------------------------------------------------------------------- *)
\* largest id the store hands out
MaxUsers == 2
\* number of one-second clock ticks before the clock is moved far ahead
MaxTicks == 1
\* number of concurrently running requests
MaxProcs == 2
\* largest id the store hands out to a role
MaxRoles == 2
\* number of deletion tokens that are generated
MaxTokens == 2

(* ---------------------------------------------------------------------- *)
(* Program constants                                                      *)
(* ---------------------------------------------------------------------- *)
\* expiresIn: '15m' and '7d', in seconds
AccessTtl == 900
RefreshTtl == 604800
\* setTimeout(..., 5 * 60 * 1000), in seconds
DeletionTtl == 300

(* ---------------------------------------------------------------------- *)
(* Inputs                                                                 *)
(* ---------------------------------------------------------------------- *)
\* usernames are sequences of characters
Usernames == { <<"A", "l">>, <<"a", "l">>, <<"b", "o">> }
\* a string used as a password: h layers of bcrypt over the plaintext p
Plain(p) == [h |-> 0, p |-> p]
Passwords == { Plain("p1"), Plain("p2") }
RoleIdInputs == { {1, 2} }
UserIds == 1..(MaxUsers + 1)
\* permission names of the seeded permissions that the routes ask for
PermissionNames == { "role_read", "user_create" }

(* ---------------------------------------------------------------------- *)
(* Role store                                                             *)
(* ---------------------------------------------------------------------- *)
VARIABLES
    roles,      \* role table: id -> the role with its permissions
    nextRoleId  \* the next generated primary key of a role

\* the seeded role 'admin' holds every permission
AdminRole == [permissions |-> PermissionNames]

\* the roles that roleRepository.findByIds can find
ExistingRoles == DOMAIN roles

(* ---------------------------------------------------------------------- *)
(* Strings, bcrypt, JWT                                                   *)
(* ---------------------------------------------------------------------- *)
LowerChar(c) ==
    CASE c = "A" -> "a"
      [] c = "L" -> "l"
      [] c = "B" -> "b"
      [] c = "O" -> "o"
      [] OTHER -> c

\* String.prototype.toLowerCase
toLowerCase(s) == [i \in DOMAIN s |-> LowerChar(s[i])]

\* variant: the password is stored as given
hashPassword_plain(password) == password

\* bcrypt.hash(password, 10): one more layer over whatever string it is given
hashPassword(password) ==
    [h |-> password.h + 1, p |-> password.p]

\* bcrypt.compare(plaintext, hashed)
validatePassword(plaintext, hashed) ==
    hashed.h = plaintext.h + 1 /\ hashed.p = plaintext.p

\* the absent refresh token (null column)
Null == [kind |-> "null", sub |-> 0, username |-> <<>>, iat |-> 0]
\* a string that is no JWT signed by this service
Garbage == [kind |-> "garbage", sub |-> 0, username |-> <<>>, iat |-> 0]

\* jwtService.signAsync(payload, {secret, expiresIn}): HS256 over
\* {sub, username, iat, exp}; iat is the clock in whole seconds, so the
\* result is a function of the payload, the secret and the second.
signAsync(secret, sub, username, t) ==
    [kind |-> secret, sub |-> sub, username |-> username, iat |-> t]

Ttl(secret) == IF secret = "access" THEN AccessTtl ELSE RefreshTtl

\* jwtService.verifyAsync(token, {secret}): throws unless the signature is
\* by that secret and the token has not expired
verifyAsync(token, secret, t) ==
    IF token.kind = secret /\ t < token.iat + Ttl(secret)
    THEN [err |-> "none", sub |-> token.sub]
    ELSE [err |-> "Error", sub |-> 0]

NoTokens == [accessToken |-> Null, refreshToken |-> Null]

(* ---------------------------------------------------------------------- *)
(* User entity and UsersService                                           *)
(* Each method is a chain of operators, one per awaited call, the value   *)
(* of the call being handed to the next as a parameter.                   *)
(* ---------------------------------------------------------------------- *)
NoUser == [id |-> 0, username |-> <<>>, password |-> Plain(""),
           refreshToken |-> Null, roles |-> {}]

\* UpdateUserDto: a field that is not given is undefined
NoDto == [hasUsername |-> FALSE, username |-> <<>>,
          hasPassword |-> FALSE, password |-> Plain(""),
          hasRefreshToken |-> FALSE, refreshToken |-> Null]

\* a UsersService call that resolved with a user, or threw
Resolved(us, user) == [err |-> "none", users |-> us, user |-> user]
Thrown(err, us) == [err |-> err, users |-> us, user |-> NoUser]

findOne(us, id) ==
    IF id \in DOMAIN us THEN Resolved(us, us[id]) ELSE Thrown("NotFound", us)

\* variant: the name is looked up as typed
findUserByUsernameOptional_exact(us, username) ==
    LET m == { i \in DOMAIN us : us[i].username = username }
    IN  IF m = {} THEN NoUser ELSE us[CHOOSE i \in m : TRUE]

findUserByUsernameOptional(us, username) ==
    LET m == { i \in DOMAIN us : us[i].username = toLowerCase(username) }
    IN  IF m = {} THEN NoUser ELSE us[CHOOSE i \in m : TRUE]

findOneByUsername_found(us, user) ==
    IF user.id = 0 THEN Thrown("NotFound", us) ELSE Resolved(us, user)

findOneByUsername(us, username) ==
    findOneByUsername_found(us, findUserByUsernameOptional(us, username))

\* userRepository.save: inserts or overwrites the row with that id; the
\* unique username column makes the store reject a second row of the name
save(us, row) ==
    IF \E j \in DOMAIN us \ {row.id} : us[j].username = row.username
    THEN Thrown("Error", us)
    ELSE Resolved((row.id :> row) @@ us, row)

\* userRepository.create({username, password}) with the roles found by id
NewUser(nid, username, password, roleIds) ==
    [id |-> nid, username |-> username, password |-> password,
     refreshToken |-> Null, roles |-> roleIds \cap ExistingRoles]

\* create: the try block around save
create_saved(us, saved) ==
    IF saved.err # "none" THEN Thrown("Internal", us) ELSE saved

\* variant: the username is stored as typed
create_raw(us, nid, username, password, roleIds) ==
    IF findUserByUsernameOptional(us, username).id # 0
    THEN Thrown("Conflict", us)
    ELSE create_saved(us, save(us, NewUser(nid, username,
                                           hashPassword(password), roleIds)))

\* UsersService.create; nid is the id the store generates on insert
create(us, nid, username, password, roleIds) ==
    IF findUserByUsernameOptional(us, username).id # 0
    THEN Thrown("Conflict", us)
    ELSE create_saved(us, save(us, NewUser(nid, toLowerCase(username),
                                           hashPassword(password), roleIds)))

\* update: the username is being changed
Renames(user, dto) ==
    dto.hasUsername /\ toLowerCase(dto.username) # user.username

\* update: the loaded row with the given fields applied
Merge(user, dto) ==
    [user EXCEPT
       !.username = IF Renames(user, dto) THEN toLowerCase(dto.username) ELSE @,
       !.password = IF dto.hasPassword THEN hashPassword(dto.password) ELSE @,
       !.refreshToken = IF dto.hasRefreshToken THEN dto.refreshToken ELSE @]

\* variant: the new username is stored without asking who holds it
update_found_unchecked(us, dto, found) ==
    IF found.err # "none" THEN Thrown("NotFound", us)
    ELSE save(us, Merge(found.user, dto))

update_found(us, dto, found) ==
    IF found.err # "none" THEN Thrown("NotFound", us)
    ELSE IF Renames(found.user, dto)
            /\ findUserByUsernameOptional(us, dto.username).id # 0
    THEN Thrown("Conflict", us)
    ELSE save(us, Merge(found.user, dto))

\* UsersService.update
update(us, id, dto) == update_found(us, dto, findOne(us, id))

\* variant: the row stays in the table
remove_kept(us, id) ==
    IF id \in DOMAIN us THEN Resolved(us, NoUser) ELSE Thrown("NotFound", us)

\* UsersService.remove: userRepository.delete(id), NotFoundException when
\* no row was affected
remove(us, id) ==
    IF id \in DOMAIN us
    THEN Resolved([i \in DOMAIN us \ {id} |-> us[i]], NoUser)
    ELSE Thrown("NotFound", us)

(* ---------------------------------------------------------------------- *)
(* UsersService as it stands in users.service.ts: create asks             *)
(* findOneByUsername, the lookup that throws, whether the name is held    *)
(* ---------------------------------------------------------------------- *)
\* the lookup before the try block: its NotFoundException leaves create
UsersServiceTs_create_found(us, nid, username, password, found) ==
    IF found.err # "none" THEN Thrown(found.err, us)
    ELSE IF found.user.id # 0 THEN Thrown("Conflict", us)
    ELSE create_saved(us, save(us, NewUser(nid, toLowerCase(username),
                                           hashPassword(password), {})))

UsersServiceTs_create(us, nid, username, password) ==
    UsersServiceTs_create_found(us, nid, username, password,
                                findOneByUsername(us, username))

(* ---------------------------------------------------------------------- *)
(* AuthService                                                            *)
(* ---------------------------------------------------------------------- *)
\* handleServiceError: the four HTTP exceptions pass, anything else
\* becomes InternalServerErrorException
handleServiceError(err) ==
    IF err \in {"Unauthorized", "NotFound", "Conflict", "BadRequest"}
    THEN err
    ELSE "Internal"

\* a public method that returned a pair, or threw through handleServiceError
Returned(us, tokens) == [err |-> "none", users |-> us, tokens |-> tokens]
Fail(err, us) ==
    [err |-> handleServiceError(err), users |-> us, tokens |-> NoTokens]

\* storeRefreshToken after update: the read back must show a reference;
\* every failure becomes InternalServerErrorException
storeRefreshToken_updated(userId, up) ==
    IF up.err # "none" \/ up.user.id = 0 THEN Thrown("Internal", up.users)
    ELSE IF findOne(up.users, userId).err # "none"
            \/ findOne(up.users, userId).user.refreshToken = Null
    THEN Thrown("Internal", up.users)
    ELSE up

storeRefreshToken(us, userId, refreshToken) ==
    storeRefreshToken_updated(userId,
        update(us, userId, [NoDto EXCEPT !.hasRefreshToken = TRUE,
                                         !.refreshToken = refreshToken]))

\* variant: the access token is signed like the refresh token
Pair_oneSecret(user, t) ==
    [accessToken |-> signAsync("refresh", user.id, user.username, t),
     refreshToken |-> signAsync("refresh", user.id, user.username, t)]

\* the pair signed for a user at second t
Pair(user, t) ==
    [accessToken |-> signAsync("access", user.id, user.username, t),
     refreshToken |-> signAsync("refresh", user.id, user.username, t)]

generateTokens_stored(tokens, stored) ==
    IF stored.err # "none"
    THEN [err |-> stored.err, users |-> stored.users, tokens |-> NoTokens]
    ELSE Returned(stored.users, tokens)

\* variant: the pair is returned without storing the refresh token
generateTokens_unbound(us, user, t) == Returned(us, Pair(user, t))

\* generateTokens: both tokens carry {sub, username}; the refresh token is
\* stored before the pair is returned
generateTokens(us, user, t) ==
    generateTokens_stored(Pair(user, t),
        storeRefreshToken(us, user.id, Pair(user, t).refreshToken))

clearRefreshToken_updated(us, up) ==
    IF up.err # "none" THEN us ELSE up.users

\* clearRefreshToken: every error is logged and swallowed
clearRefreshToken(us, userId) ==
    IF findOne(us, userId).err # "none" THEN us
    ELSE clearRefreshToken_updated(us,
            update(us, userId, [NoDto EXCEPT !.hasRefreshToken = TRUE,
                                             !.refreshToken = Null]))

\* register, login and changePassword return the promise of generateTokens
\* without awaiting it: its rejection (InternalServerErrorException) does
\* not pass through the catch
register_created(made, t) ==
    IF made.err # "none" THEN Fail(made.err, made.users)
    ELSE generateTokens(made.users, made.user, t)

register(us, nid, username, password, roleIds, t) ==
    register_created(create(us, nid, username, password, roleIds), t)

login_found(us, password, t, found) ==
    IF found.err # "none" THEN Fail(found.err, us)
    ELSE IF found.user.id = 0
            \/ ~validatePassword(password, found.user.password)
    THEN Fail("Unauthorized", us)
    ELSE generateTokens(us, found.user, t)

login(us, username, password, t) ==
    login_found(us, password, t, findOneByUsername(us, username))

\* refreshTokens, lines 139-144: the pair is generated, then the reference
\* is cleared, then the pair is returned
refreshTokens_generated(userId, gen) ==
    IF gen.err # "none" THEN Fail(gen.err, gen.users)
    ELSE Returned(clearRefreshToken(gen.users, userId), gen.tokens)

\* variant: the token is not compared with the stored reference
refreshTokens_found_unmatched(us, refreshToken, t, found) ==
    IF found.err # "none" THEN Fail(found.err, us)
    ELSE IF found.user.id = 0 THEN Fail("Unauthorized", us)
    ELSE refreshTokens_generated(found.user.id,
                                 generateTokens(us, found.user, t))

refreshTokens_found(us, refreshToken, t, found) ==
    IF found.err # "none" THEN Fail(found.err, us)
    ELSE IF found.user.id = 0 THEN Fail("Unauthorized", us)
    ELSE IF found.user.refreshToken # refreshToken THEN Fail("Unauthorized", us)
    ELSE refreshTokens_generated(found.user.id,
                                 generateTokens(us, found.user, t))

refreshTokens_verified(us, refreshToken, t, payload) ==
    IF payload.err # "none" THEN Fail(payload.err, us)
    ELSE refreshTokens_found(us, refreshToken, t, findOne(us, payload.sub))

\* an Authorization header: bearer is startsWith('Bearer '), token is
\* split(' ')[1]
refreshTokens(us, authHeader, t) ==
    IF ~authHeader.bearer THEN Fail("Unauthorized", us)
    ELSE refreshTokens_verified(us, authHeader.token, t,
                                verifyAsync(authHeader.token, "refresh", t))

changePassword_reloaded(cleared, t, updatedUser) ==
    IF updatedUser.err # "none" THEN Fail(updatedUser.err, cleared)
    ELSE generateTokens(cleared, updatedUser.user, t)

changePassword_cleared(cleared, userId, t) ==
    changePassword_reloaded(cleared, t, findOne(cleared, userId))

changePassword_updated(userId, t, up) ==
    IF up.err # "none" THEN Fail(up.err, up.users)
    ELSE changePassword_cleared(clearRefreshToken(up.users, userId), userId, t)

changePassword_found(us, userId, currentPassword, newPassword, t, found) ==
    IF found.err # "none" THEN Fail(found.err, us)
    ELSE IF found.user.id = 0
            \/ ~validatePassword(currentPassword, found.user.password)
    THEN Fail("Unauthorized", us)
    ELSE changePassword_updated(userId, t,
            update(us, userId,
                   [NoDto EXCEPT !.hasPassword = TRUE,
                                 !.password = hashPassword(newPassword)]))

changePassword(us, userId, currentPassword, newPassword, t) ==
    IF currentPassword = newPassword THEN Fail("Conflict", us)
    ELSE changePassword_found(us, userId, currentPassword, newPassword, t,
                              findOne(us, userId))

deleteAccount_removed(removed) ==
    IF removed.err # "none" THEN Fail(removed.err, removed.users)
    ELSE Returned(removed.users, NoTokens)

deleteAccount_found(us, userId, password, found) ==
    IF found.err # "none" THEN Fail(found.err, us)
    ELSE IF ~validatePassword(password, found.user.password)
    THEN Fail("Unauthorized", us)
    ELSE deleteAccount_removed(remove(us, userId))

\* variant: the account is removed without looking at the password
deleteAccount_unchecked(us, userId, password) ==
    deleteAccount_removed(remove(us, userId))

\* deleteAccount resolves with nothing
deleteAccount(us, userId, password) ==
    deleteAccount_found(us, userId, password, findOne(us, userId))

\* variant: the whole row is handed out
toUserResponseDto_whole(user) == user

\* toUserResponseDto: the row without its password and refreshToken
toUserResponseDto(user) ==
    [f \in DOMAIN user \ {"password", "refreshToken"} |-> user[f]]

\* getProfile returned a UserResponseDto, or threw
NoProfile == [id |-> 0]
Profile(err, us, profile) == [err |-> err, users |-> us, profile |-> profile]

getProfile_found(us, found) ==
    IF found.err # "none"
    THEN Profile(handleServiceError(found.err), us, NoProfile)
    ELSE IF found.user.id = 0 THEN Profile("NotFound", us, NoProfile)
    ELSE Profile("none", us, toUserResponseDto(found.user))

getProfile(us, userId) == getProfile_found(us, findOne(us, userId))

(* ---------------------------------------------------------------------- *)
(* AuthController: what the catch block of each handler rethrows          *)
(* ---------------------------------------------------------------------- *)
AuthController_register(err) ==
    IF err = "BadRequest" THEN err ELSE "Internal"

AuthController_login(err) ==
    IF err \in {"Unauthorized", "NotFound"} THEN err ELSE "Internal"

AuthController_getProfile(err) ==
    IF err = "NotFound" THEN err ELSE "Internal"

AuthController_refresh(err) ==
    IF err = "Unauthorized" THEN err ELSE "Internal"

AuthController_changePassword(err) ==
    IF err = "Unauthorized" THEN err ELSE "Internal"

AuthController_deleteAccount(err) ==
    IF err = "Unauthorized" THEN err ELSE "Internal"

\* the error kind the HTTP caller is answered with when AuthService threw err
AuthController(op, err) ==
    CASE err = "none" -> "none"
      [] op = "register" -> AuthController_register(err)
      [] op = "login" -> AuthController_login(err)
      [] op = "getProfile" -> AuthController_getProfile(err)
      [] op = "refresh" -> AuthController_refresh(err)
      [] op = "changePassword" -> AuthController_changePassword(err)
      [] op = "deleteAccount" -> AuthController_deleteAccount(err)
      [] OTHER -> err

(* ---------------------------------------------------------------------- *)
(* State                                                                  *)
(* ---------------------------------------------------------------------- *)
VARIABLES
    users,      \* the user table: id -> User row
    nextId,     \* the next generated primary key
    now,        \* the clock, in seconds
    issued,     \* refresh tokens handed out in responses so far
    last,       \* the last completed request and its response
    pc,         \* position of each in-flight refreshTokens call
    loc,        \* its local variables
    out,        \* the last answer of a call that is not kept in last
    draft       \* the deletion tokens of the two-step deletion variant

vars ==
    <<users, nextId, now, issued, last, pc, loc, roles, nextRoleId, out, draft>>

Procs == 1..MaxProcs

NoHeader == [bearer |-> FALSE, token |-> Garbage]

\* the request is kept with its response where a later request is judged
\* against it: the username of a registration, and what a successful
\* call was given
Response(op, id, username, former, password, header, res) ==
    [op |-> op,
     id |-> IF res.err = "none" THEN id ELSE 0,
     username |-> IF op = "register" THEN username ELSE <<>>,
     former |-> IF res.err = "none" THEN former ELSE Plain(""),
     password |-> IF res.err = "none" THEN password ELSE Plain(""),
     header |-> IF res.err = "none" THEN header ELSE NoHeader,
     err |-> res.err, tokens |-> res.tokens]

\* locals of a call in flight: the header, the row it last loaded, the
\* pair it signed, its outcome, whether another call with the same token
\* was in flight while it ran, and the error that was first thrown inside
NoLocal == [header |-> NoHeader, user |-> NoUser, tokens |-> NoTokens,
            err |-> "none", raced |-> FALSE, raised |-> "none"]

\* no deletion token was generated yet: the token map, the pending expiry
\* timers with their due time, the tokens whose timer has fired, the user
\* each token was generated for, and the next token value
NoDraft == [deletionTokens |-> <<>>, timers |-> <<>>, fired |-> {},
            minted |-> <<>>, nextToken |-> 1]

Init ==
    /\ users = <<>>
    /\ nextId = 1
    /\ now = 0
    /\ issued = {}
    /\ last = Response("init", 0, <<>>, Plain(""), Plain(""), NoHeader,
                       [err |-> "none", tokens |-> NoTokens])
    /\ pc = [p \in Procs |-> "idle"]
    /\ loc = [p \in Procs |-> NoLocal]
    /\ roles = (1 :> AdminRole)
    /\ nextRoleId = 2
    /\ out = [op |-> "init"]
    /\ draft = NoDraft

\* the access token signed together with a refresh token
AccessOf(token) == [token EXCEPT !.kind = "access"]

\* what a client can put after 'Bearer ': a token it was given, or junk
Presentable == issued \cup { AccessOf(t) : t \in issued } \cup {Garbage}

Headers ==
    { [bearer |-> TRUE, token |-> t] : t \in Presentable } \cup {NoHeader}

(* ---------------------------------------------------------------------- *)
(* RolesService and PermissionsGuard                                      *)
(* ---------------------------------------------------------------------- *)
\* CreateRoleDto / UpdateRoleDto: permissionIds may be absent; a permission
\* is identified by its name
NoRoleDto == [hasPermissionIds |-> FALSE, permissionIds |-> {}]
RoleDtos ==
    {NoRoleDto} \cup
    { [hasPermissionIds |-> TRUE, permissionIds |-> ids] :
        ids \in SUBSET PermissionNames }

\* permissionRepository.findByIds
findByIds(permissionIds) == permissionIds \cap PermissionNames

\* a RolesService call that resolved, or threw; removing a role also
\* removes its rows of the user_roles join table
RoleDone(err, rs, us) == [err |-> err, roles |-> rs, users |-> us]

\* RolesService.create; nid is the id the store generates on insert
RolesService_create(rs, us, nid, dto) ==
    RoleDone("none",
             (nid :> [permissions |-> IF dto.hasPermissionIds
                                      THEN findByIds(dto.permissionIds)
                                      ELSE {}]) @@ rs,
             us)

\* RolesService.update: permissions are replaced when permissionIds is given
RolesService_update(rs, us, id, dto) ==
    IF id \notin DOMAIN rs THEN RoleDone("NotFound", rs, us)
    ELSE RoleDone("none",
                  [rs EXCEPT ![id].permissions =
                       IF dto.hasPermissionIds
                       THEN findByIds(dto.permissionIds) ELSE @],
                  us)

\* RolesService.remove
RolesService_remove(rs, us, id) ==
    IF id \notin DOMAIN rs THEN RoleDone("NotFound", rs, us)
    ELSE RoleDone("none",
                  [r \in DOMAIN rs \ {id} |-> rs[r]],
                  [i \in DOMAIN us |-> [us[i] EXCEPT !.roles = @ \ {id}]])

\* what the route asks for: the metadata may be absent, or a list of names
Public == [present |-> FALSE, names |-> {}]
Requirements ==
    {Public} \cup { [present |-> TRUE, names |-> n] : n \in SUBSET PermissionNames }

\* request.user?.sub: 0 when the request carries no user
Subjects == 0..MaxUsers

\* lines 40-42: the permission names of all roles of the user, flattened
userPermissions(us, rs, userId) ==
    UNION { rs[r].permissions : r \in us[userId].roles \cap DOMAIN rs }

\* variant: every required permission must be held
canActivate_allOf(us, rs, requiredPermissions, userId, storeUp) ==
    IF ~requiredPermissions.present THEN "allow"
    ELSE IF userId = 0 THEN "deny"
    ELSE IF ~storeUp THEN "throw"
    ELSE IF userId \notin DOMAIN us THEN "deny"
    ELSE IF \A p \in requiredPermissions.names :
               p \in userPermissions(us, rs, userId)
    THEN "allow"
    ELSE "deny"

\* variant: an earlier answer for the same user and route is given again
canActivate_cached(us, rs, requiredPermissions, userId, storeUp) ==
    IF ~requiredPermissions.present THEN "allow"
    ELSE IF userId = 0 THEN "deny"
    ELSE IF ~storeUp THEN "throw"
    ELSE IF out.op = "canActivate" /\ out.userId = userId
            /\ out.requiredPermissions = requiredPermissions
            /\ out.outcome # "throw"
    THEN out.outcome
    ELSE IF userId \notin DOMAIN us THEN "deny"
    ELSE IF \E p \in requiredPermissions.names :
               p \in userPermissions(us, rs, userId)
    THEN "allow"
    ELSE "deny"

\* PermissionsGuard.canActivate: resolves with true ("allow") or false
\* ("deny"), or rejects with the error of the query ("throw") when the
\* store cannot be read
canActivate(us, rs, requiredPermissions, userId, storeUp) ==
    IF ~requiredPermissions.present THEN "allow"
    ELSE IF userId = 0 THEN "deny"
    ELSE IF ~storeUp THEN "throw"
    ELSE IF userId \notin DOMAIN us THEN "deny"
    ELSE IF \E p \in requiredPermissions.names :
               p \in userPermissions(us, rs, userId)
    THEN "allow"
    ELSE "deny"

(* ---------------------------------------------------------------------- *)
(* Requests served one at a time                                          *)
(* ---------------------------------------------------------------------- *)
\* the store takes the outcome of the call and the response goes out
Serve(op, id, username, former, password, header, res) ==
    /\ users' = res.users
    /\ nextId' = IF nextId \in DOMAIN res.users THEN nextId + 1 ELSE nextId
    /\ issued' = IF res.err = "none"
                 THEN issued \cup {res.tokens.refreshToken}
                 ELSE issued
    /\ last' = Response(op, id, username, former, password, header, res)
    /\ UNCHANGED <<now, pc, loc, roles, nextRoleId, out, draft>>

Register(username, password, roleIds) ==
    /\ findUserByUsernameOptional(users, username).id # 0
       \/ nextId <= MaxUsers
    /\ Serve("register", 0, username, Plain(""), Plain(""), NoHeader,
             register(users, nextId, username, password, roleIds, now))

Login(username, password) ==
    Serve("login", 0, username, Plain(""), Plain(""), NoHeader,
          login(users, username, password, now))

RefreshTokens(authHeader) ==
    Serve("refresh", 0, <<>>, Plain(""), Plain(""), authHeader,
          refreshTokens(users, authHeader, now))

ChangePassword(userId, currentPassword, newPassword) ==
    Serve("changePassword", userId, <<>>, currentPassword, newPassword,
          NoHeader,
          changePassword(users, userId, currentPassword, newPassword, now))

\* the clock advances by a second, or by the lifetime of a refresh token
Tick(d) ==
    /\ d = 1 => now < MaxTicks
    /\ d = RefreshTtl => now = MaxTicks
    /\ now' = now + d
    /\ UNCHANGED <<users, nextId, issued, last, pc, loc,
                   roles, nextRoleId, out, draft>>

Next ==
    \/ \E u \in Usernames, p \in Passwords, r \in RoleIdInputs : Register(u, p, r)
    \/ \E u \in Usernames, p \in Passwords : Login(u, p)
    \/ \E h \in Headers : RefreshTokens(h)
    \/ \E i \in UserIds, c \in Passwords, n \in Passwords : ChangePassword(i, c, n)
    \/ \E d \in {1, RefreshTtl} : Tick(d)

Spec == Init /\ [][Next]_vars

(* ---------------------------------------------------------------------- *)
(* Accounts: profile and deletion                                         *)
(* ---------------------------------------------------------------------- *)
GetProfile(userId) ==
    /\ users' = getProfile(users, userId).users
    /\ out' = [op |-> "getProfile", userId |-> userId,
               err |-> getProfile(users, userId).err,
               profile |-> getProfile(users, userId).profile]
    /\ UNCHANGED <<nextId, now, issued, last, pc,
                   loc, roles, nextRoleId, draft>>

DeleteAccount(userId, password) ==
    /\ users' = deleteAccount(users, userId, password).users
    /\ last' = Response("deleteAccount", userId, <<>>, Plain(""), password,
                        NoHeader, deleteAccount(users, userId, password))
    /\ UNCHANGED <<nextId, now, issued, pc, loc, roles, nextRoleId, out, draft>>

NextAccount ==
    \/ \E u \in Usernames, r \in RoleIdInputs : Register(u, Plain("p1"), r)
    \/ \E u \in Usernames, p \in Passwords : Login(u, p)
    \/ \E h \in Headers : RefreshTokens(h)
    \/ \E i \in UserIds : GetProfile(i)
    \/ \E i \in UserIds, p \in Passwords : DeleteAccount(i, p)

SpecAccount == Init /\ [][NextAccount]_vars

(* ---------------------------------------------------------------------- *)
(* Guarded routes while roles are administered                            *)
(* ---------------------------------------------------------------------- *)
RoleServed(res) ==
    /\ roles' = res.roles
    /\ users' = res.users
    /\ nextRoleId' = IF nextRoleId \in DOMAIN res.roles
                     THEN nextRoleId + 1 ELSE nextRoleId
    /\ UNCHANGED <<nextId, now, issued, last, pc, loc, out, draft>>

CreateRole(dto) ==
    /\ nextRoleId <= MaxRoles
    /\ RoleServed(RolesService_create(roles, users, nextRoleId, dto))

UpdateRole(id, dto) == RoleServed(RolesService_update(roles, users, id, dto))

RemoveRole(id) == RoleServed(RolesService_remove(roles, users, id))

CanActivate(requiredPermissions, userId, storeUp) ==
    /\ out' = [op |-> "canActivate",
               requiredPermissions |-> requiredPermissions,
               userId |-> userId, storeUp |-> storeUp,
               outcome |-> canActivate(users, roles, requiredPermissions,
                                       userId, storeUp)]
    /\ UNCHANGED <<users, nextId, now, issued, last, pc,
                   loc, roles, nextRoleId, draft>>

NextGuard ==
    \/ \E u \in Usernames, r \in RoleIdInputs : Register(u, Plain("p1"), r)
    \/ \E dto \in RoleDtos : CreateRole(dto)
    \/ \E id \in 1..MaxRoles, dto \in RoleDtos : UpdateRole(id, dto)
    \/ \E id \in 1..MaxRoles : RemoveRole(id)
    \/ \E req \in Requirements, i \in Subjects, up \in BOOLEAN :
          CanActivate(req, i, up)

SpecGuard == Init /\ [][NextGuard]_vars

(* ---------------------------------------------------------------------- *)
(* Users administered through UsersService.update                         *)
(* ---------------------------------------------------------------------- *)
\* UpdateUserDto with a username, a password, both or neither
UserDtos ==
    { [NoDto EXCEPT !.hasUsername = TRUE, !.username = u] : u \in Usernames }
    \cup { [NoDto EXCEPT !.hasPassword = TRUE, !.password = p] : p \in Passwords }
    \cup { [NoDto EXCEPT !.hasUsername = TRUE, !.username = <<"A", "l">>,
                         !.hasPassword = TRUE, !.password = Plain("p2")],
           NoDto }

UpdateUser(id, dto) ==
    /\ users' = update(users, id, dto).users
    /\ out' = [op |-> "update", id |-> id, dto |-> dto,
               err |-> update(users, id, dto).err]
    /\ UNCHANGED <<nextId, now, issued, last, pc,
                   loc, roles, nextRoleId, draft>>

\* create of users.service.ts called on the store
CreateUser(username, password) ==
    /\ findUserByUsernameOptional(users, username).id # 0
       \/ nextId <= MaxUsers
    /\ users' = UsersServiceTs_create(users, nextId, username, password).users
    /\ nextId' = IF nextId \in DOMAIN users' THEN nextId + 1 ELSE nextId
    /\ out' = [op |-> "create", username |-> username,
               err |-> UsersServiceTs_create(users, nextId, username,
                                             password).err]
    /\ UNCHANGED <<now, issued, last, pc, loc, roles, nextRoleId, draft>>

NextUsers ==
    \/ \E u \in Usernames, p \in Passwords, r \in RoleIdInputs : Register(u, p, r)
    \/ \E i \in UserIds, c \in Passwords, n \in Passwords : ChangePassword(i, c, n)
    \/ \E i \in UserIds, dto \in UserDtos : UpdateUser(i, dto)
    \/ \E u \in Usernames, p \in Passwords : CreateUser(u, p)

SpecUsers == Init /\ [][NextUsers]_vars

(* ---------------------------------------------------------------------- *)
(* refreshTokens calls running concurrently: one step per awaited store   *)
(* access, so that two calls interleave where the event loop lets them    *)
(* ---------------------------------------------------------------------- *)
InFlight(q) == pc[q] \notin {"idle", "done"}

Finish(p, err) ==
    /\ pc' = [pc EXCEPT ![p] = "done"]
    /\ loc' = [loc EXCEPT ![p].err = handleServiceError(err)]

\* lines 119-136: header, verifyAsync, findOne and the stored-reference check
rtCheck(p, authHeader) ==
    LET payload == verifyAsync(authHeader.token, "refresh", now)
        found == findOne(users, payload.sub)
        rivals == { q \in Procs \ {p} :
                      InFlight(q) /\ loc[q].header = authHeader }
    IN  /\ pc[p] = "idle"
        /\ IF ~authHeader.bearer THEN Finish(p, "Unauthorized")
           ELSE IF payload.err # "none" THEN Finish(p, payload.err)
           ELSE IF found.err # "none" THEN Finish(p, found.err)
           ELSE IF found.user.refreshToken # authHeader.token
           THEN Finish(p, "Unauthorized")
           ELSE /\ pc' = [pc EXCEPT ![p] = "sign"]
                /\ loc' = [q \in Procs |->
                             IF q = p
                             THEN [NoLocal EXCEPT !.header = authHeader,
                                                  !.user = found.user,
                                                  !.raced = rivals # {}]
                             ELSE IF q \in rivals
                             THEN [loc[q] EXCEPT !.raced = TRUE]
                             ELSE loc[q]]
        /\ UNCHANGED <<users, nextId, now, issued, last,
                       roles, nextRoleId, out, draft>>

\* generateTokens signs the pair; storeRefreshToken -> update loads the row
rtSign(p) ==
    LET user == loc[p].user
        found == findOne(users, user.id)
    IN  /\ pc[p] = "sign"
        /\ IF found.err # "none" THEN Finish(p, "Internal")
           ELSE /\ pc' = [pc EXCEPT ![p] = "save"]
                /\ loc' = [loc EXCEPT
                     ![p].tokens =
                        [accessToken |->
                           signAsync("access", user.id, user.username, now),
                         refreshToken |->
                           signAsync("refresh", user.id, user.username, now)],
                     ![p].user = found.user]
        /\ UNCHANGED <<users, nextId, now, issued, last,
                       roles, nextRoleId, out, draft>>

\* update: userRepository.save of the loaded row with the new reference
rtSave(p) ==
    LET row == [loc[p].user EXCEPT !.refreshToken = loc[p].tokens.refreshToken]
    IN  /\ pc[p] = "save"
        /\ users' = save(users, row).users
        /\ pc' = [pc EXCEPT ![p] = "verify"]
        /\ UNCHANGED <<nextId, now, issued, last, loc,
                       roles, nextRoleId, out, draft>>

\* storeRefreshToken reads the row back and fails if no reference is there
rtVerify(p) ==
    LET back == findOne(users, loc[p].user.id)
    IN  /\ pc[p] = "verify"
        /\ IF back.err # "none" \/ back.user.refreshToken = Null
           THEN Finish(p, "Internal")
           ELSE /\ pc' = [pc EXCEPT ![p] = "clear"]
                /\ UNCHANGED loc
        /\ UNCHANGED <<users, nextId, now, issued, last,
                       roles, nextRoleId, out, draft>>

\* clearRefreshToken: findOne, and update loads the row
rtClearLoad(p) ==
    LET found == findOne(users, loc[p].user.id)
    IN  /\ pc[p] = "clear"
        /\ pc' = [pc EXCEPT ![p] = IF found.err # "none" THEN "done"
                                   ELSE "clearSave"]
        /\ loc' = [loc EXCEPT ![p].user = found.user]
        /\ UNCHANGED <<users, nextId, now, issued, last,
                       roles, nextRoleId, out, draft>>

\* clearRefreshToken: update saves the row with a null reference, and
\* refreshTokens returns the pair
rtClearSave(p) ==
    LET row == [loc[p].user EXCEPT !.refreshToken = Null]
    IN  /\ pc[p] = "clearSave"
        /\ users' = save(users, row).users
        /\ pc' = [pc EXCEPT ![p] = "done"]
        /\ UNCHANGED <<nextId, now, issued, last, loc,
                       roles, nextRoleId, out, draft>>

\* the response is taken off; the slot serves the next request
rtReturn(p) ==
    /\ pc[p] = "done"
    /\ last' = Response("refresh", 0, <<>>, Plain(""), Plain(""),
                        loc[p].header,
                        [err |-> loc[p].err,
                         tokens |-> IF loc[p].err = "none" THEN loc[p].tokens
                                    ELSE NoTokens])
    /\ issued' = IF loc[p].err = "none"
                 THEN issued \cup {loc[p].tokens.refreshToken}
                 ELSE issued
    /\ pc' = [pc EXCEPT ![p] = "idle"]
    /\ loc' = [loc EXCEPT ![p] = NoLocal]
    /\ UNCHANGED <<users, nextId, now, roles, nextRoleId, out, draft>>

NextConc ==
    \/ \E u \in Usernames, r \in RoleIdInputs : Register(u, Plain("p1"), r)
    \/ Tick(1)
    \/ \E p \in Procs, h \in Headers : rtCheck(p, h)
    \/ \E p \in Procs : rtSign(p)
    \/ \E p \in Procs : rtSave(p)
    \/ \E p \in Procs : rtVerify(p)
    \/ \E p \in Procs : rtClearLoad(p)
    \/ \E p \in Procs : rtClearSave(p)
    \/ \E p \in Procs : rtReturn(p)

SpecConc == Init /\ [][NextConc]_vars

(* ---------------------------------------------------------------------- *)
(* login calls running concurrently with other requests: one step per     *)
(* awaited store access                                                   *)
(* ---------------------------------------------------------------------- *)
\* the call ends with err, raised being what was thrown inside it
lgFinish(p, raised, err) ==
    /\ pc' = [pc EXCEPT ![p] = "lgDone"]
    /\ loc' = [loc EXCEPT ![p].raised = raised, ![p].err = err]

\* lines 91-95: findOneByUsername and validatePassword; what they throw
\* goes through handleServiceError
lgFind(p, username, password) ==
    LET found == findOneByUsername(users, username)
    IN  /\ pc[p] = "idle"
        /\ IF found.err # "none"
           THEN lgFinish(p, found.err, handleServiceError(found.err))
           ELSE IF ~validatePassword(password, found.user.password)
           THEN lgFinish(p, "Unauthorized", handleServiceError("Unauthorized"))
           ELSE /\ pc' = [pc EXCEPT ![p] = "lgSign"]
                /\ loc' = [loc EXCEPT ![p] = [NoLocal EXCEPT !.user = found.user]]
        /\ UNCHANGED <<users, nextId, now, issued, last,
                       roles, nextRoleId, out, draft>>

\* generateTokens signs the pair; storeRefreshToken -> update loads the row,
\* and storeRefreshToken's catch turns whatever is thrown into
\* InternalServerErrorException
lgSign(p) ==
    LET user == loc[p].user
        found == findOne(users, user.id)
    IN  /\ pc[p] = "lgSign"
        /\ IF found.err # "none" THEN lgFinish(p, found.err, "Internal")
           ELSE /\ pc' = [pc EXCEPT ![p] = "lgSave"]
                /\ loc' = [loc EXCEPT ![p].tokens = Pair(user, now),
                                      ![p].user = found.user]
        /\ UNCHANGED <<users, nextId, now, issued, last,
                       roles, nextRoleId, out, draft>>

\* update: userRepository.save of the loaded row with the new reference
lgSave(p) ==
    LET row == [loc[p].user EXCEPT !.refreshToken = loc[p].tokens.refreshToken]
    IN  /\ pc[p] = "lgSave"
        /\ users' = save(users, row).users
        /\ pc' = [pc EXCEPT ![p] = "lgVerify"]
        /\ UNCHANGED <<nextId, now, issued, last, loc,
                       roles, nextRoleId, out, draft>>

\* storeRefreshToken reads the row back and throws if no reference is there
lgVerify(p) ==
    LET back == findOne(users, loc[p].user.id)
    IN  /\ pc[p] = "lgVerify"
        /\ IF back.err # "none" THEN lgFinish(p, back.err, "Internal")
           ELSE IF back.user.refreshToken = Null
           THEN lgFinish(p, "Error", "Internal")
           ELSE lgFinish(p, "none", "none")
        /\ UNCHANGED <<users, nextId, now, issued, last,
                       roles, nextRoleId, out, draft>>

\* the response is taken off; the slot serves the next request
lgReturn(p) ==
    /\ pc[p] = "lgDone"
    /\ last' = Response("login", 0, <<>>, Plain(""), Plain(""), NoHeader,
                        [err |-> loc[p].err,
                         tokens |-> IF loc[p].err = "none" THEN loc[p].tokens
                                    ELSE NoTokens])
    /\ issued' = IF loc[p].err = "none"
                 THEN issued \cup {loc[p].tokens.refreshToken}
                 ELSE issued
    /\ pc' = [pc EXCEPT ![p] = "idle"]
    /\ loc' = [loc EXCEPT ![p] = NoLocal]
    /\ UNCHANGED <<users, nextId, now, roles, nextRoleId, out, draft>>

\* login racing with refreshTokens
NextLogin ==
    \/ \E u \in Usernames, r \in RoleIdInputs : Register(u, Plain("p1"), r)
    \/ \E p \in Procs, u \in Usernames, w \in Passwords : lgFind(p, u, w)
    \/ \E p \in Procs : lgSign(p)
    \/ \E p \in Procs : lgSave(p)
    \/ \E p \in Procs : lgVerify(p)
    \/ \E p \in Procs : lgReturn(p)
    \/ \E p \in Procs, h \in Headers : rtCheck(p, h)
    \/ \E p \in Procs : rtSign(p)
    \/ \E p \in Procs : rtSave(p)
    \/ \E p \in Procs : rtVerify(p)
    \/ \E p \in Procs : rtClearLoad(p)
    \/ \E p \in Procs : rtClearSave(p)
    \/ \E p \in Procs : rtReturn(p)

SpecLogin == Init /\ [][NextLogin]_vars

\* login racing with deleteAccount
NextLoginDelete ==
    \/ \E u \in Usernames, r \in RoleIdInputs : Register(u, Plain("p1"), r)
    \/ \E p \in Procs, u \in Usernames, w \in Passwords : lgFind(p, u, w)
    \/ \E p \in Procs : lgSign(p)
    \/ \E p \in Procs : lgSave(p)
    \/ \E p \in Procs : lgVerify(p)
    \/ \E p \in Procs : lgReturn(p)
    \/ \E i \in UserIds, w \in Passwords : DeleteAccount(i, w)

SpecLoginDelete == Init /\ [][NextLoginDelete]_vars

(* ---------------------------------------------------------------------- *)
(* register and UsersService.update calls running concurrently: the       *)
(* lookup of the username and the save are separate store accesses        *)
(* ---------------------------------------------------------------------- *)
\* UpdateUserDto that gives a username
RenameDtos ==
    { [NoDto EXCEPT !.hasUsername = TRUE, !.username = u] : u \in Usernames }

\* the rows that calls past their lookup are about to insert
Inserting == { q \in Procs : pc[q] = "rgSave" }

rcFinish(p, label, raised, err) ==
    /\ pc' = [pc EXCEPT ![p] = label]
    /\ loc' = [loc EXCEPT ![p].raised = raised, ![p].err = err]

\* create, lines 46-58: the pre-check, then the row is built
rgCheck(p, username, password, roleIds) ==
    /\ pc[p] = "idle"
    /\ findUserByUsernameOptional(users, username).id # 0
       \/ nextId + Cardinality(Inserting) <= MaxUsers
    /\ IF findUserByUsernameOptional(users, username).id # 0
       THEN rcFinish(p, "rgDone", "Conflict", handleServiceError("Conflict"))
       ELSE /\ pc' = [pc EXCEPT ![p] = "rgSave"]
            /\ loc' = [loc EXCEPT ![p] =
                         [NoLocal EXCEPT !.user =
                             NewUser(0, toLowerCase(username),
                                     hashPassword(password), roleIds)]]
    /\ UNCHANGED <<users, nextId, now, issued, last,
                   roles, nextRoleId, out, draft>>

\* create, lines 64-69: userRepository.save inserts the row under a new id;
\* what it throws becomes InternalServerErrorException
rgSave(p) ==
    LET row == [loc[p].user EXCEPT !.id = nextId]
        saved == save(users, row)
    IN  /\ pc[p] = "rgSave"
        /\ users' = create_saved(users, saved).users
        /\ nextId' = IF saved.err = "none" THEN nextId + 1 ELSE nextId
        /\ IF saved.err # "none"
           THEN rcFinish(p, "rgDone", saved.err,
                         handleServiceError(create_saved(users, saved).err))
           ELSE /\ pc' = [pc EXCEPT ![p] = "rgTokens"]
                /\ loc' = [loc EXCEPT ![p].user = row]
        /\ UNCHANGED <<now, issued, last, roles, nextRoleId, out, draft>>

\* register, line 82: generateTokens for the created user
rgTokens(p) ==
    LET gen == generateTokens(users, loc[p].user, now)
    IN  /\ pc[p] = "rgTokens"
        /\ users' = gen.users
        /\ pc' = [pc EXCEPT ![p] = "rgDone"]
        /\ loc' = [loc EXCEPT ![p].tokens = gen.tokens, ![p].err = gen.err]
        /\ UNCHANGED <<nextId, now, issued, last, roles,
                       nextRoleId, out, draft>>

rgReturn(p) ==
    /\ pc[p] = "rgDone"
    /\ last' = Response("register", 0, loc[p].user.username, Plain(""),
                        Plain(""), NoHeader,
                        [err |-> loc[p].err, tokens |-> loc[p].tokens])
    /\ issued' = IF loc[p].err = "none"
                 THEN issued \cup {loc[p].tokens.refreshToken}
                 ELSE issued
    /\ pc' = [pc EXCEPT ![p] = "idle"]
    /\ loc' = [loc EXCEPT ![p] = NoLocal]
    /\ UNCHANGED <<users, nextId, now, roles, nextRoleId, out, draft>>

\* update, lines 134-157: the row is loaded, the new username looked up and
\* the fields assigned
udLoad(p, id, dto) ==
    LET found == findOne(users, id)
    IN  /\ pc[p] = "idle"
        /\ IF found.err # "none"
           THEN rcFinish(p, "udDone", found.err, found.err)
           ELSE IF Renames(found.user, dto)
                   /\ findUserByUsernameOptional(users, dto.username).id # 0
           THEN rcFinish(p, "udDone", "Conflict", "Conflict")
           ELSE /\ pc' = [pc EXCEPT ![p] = "udSave"]
                /\ loc' = [loc EXCEPT ![p] =
                             [NoLocal EXCEPT !.user = Merge(found.user, dto)]]
        /\ UNCHANGED <<users, nextId, now, issued, last,
                       roles, nextRoleId, out, draft>>

\* update, lines 165-177: userRepository.save; the catch logs and rethrows
udSave(p) ==
    LET saved == save(users, loc[p].user)
    IN  /\ pc[p] = "udSave"
        /\ users' = saved.users
        /\ rcFinish(p, "udDone", saved.err, saved.err)
        /\ UNCHANGED <<nextId, now, issued, last, roles,
                       nextRoleId, out, draft>>

udReturn(p) ==
    /\ pc[p] = "udDone"
    /\ out' = [op |-> "update", id |-> loc[p].user.id, err |-> loc[p].err]
    /\ pc' = [pc EXCEPT ![p] = "idle"]
    /\ loc' = [loc EXCEPT ![p] = NoLocal]
    /\ UNCHANGED <<users, nextId, now, issued, last, roles, nextRoleId, draft>>

NextRegister ==
    \/ \E p \in Procs, u \in Usernames, r \in RoleIdInputs :
          rgCheck(p, u, Plain("p1"), r)
    \/ \E p \in Procs : rgSave(p)
    \/ \E p \in Procs : rgTokens(p)
    \/ \E p \in Procs : rgReturn(p)
    \/ \E p \in Procs, i \in UserIds, dto \in RenameDtos : udLoad(p, i, dto)
    \/ \E p \in Procs : udSave(p)
    \/ \E p \in Procs : udReturn(p)

SpecRegister == Init /\ [][NextRegister]_vars

(* ---------------------------------------------------------------------- *)
(* The two-step deletion variant of AuthService (auth.module.ts) over the *)
(* UsersService that looks users up by an options object                  *)
(* ---------------------------------------------------------------------- *)
\* UsersService.findOne({id, username}): an id or username that is not
\* given is 0 or empty; resolves with null (NoUser) when no row matches
Draft_findOne(us, id, username) ==
    IF id = 0 /\ username = <<>> THEN Thrown("Error", us)
    ELSE IF id # 0
    THEN Resolved(us, IF id \in DOMAIN us THEN us[id] ELSE NoUser)
    ELSE LET m == { i \in DOMAIN us : us[i].username = username }
         IN  Resolved(us, IF m = {} THEN NoUser ELSE us[CHOOSE i \in m : TRUE])

\* UsersService.create: the duplicate check, then the row is saved as given
Draft_create(us, nid, username, password) ==
    IF Draft_findOne(us, 0, username).user.id # 0 THEN Thrown("Conflict", us)
    ELSE save(us, NewUser(nid, username, password, {}))

\* UsersService.update: usersRepository.update writes the row if it is
\* there; the call resolves with the row read back, or null
Draft_update(us, id, refreshToken) ==
    LET written == IF id \in DOMAIN us
                   THEN [us EXCEPT ![id].refreshToken = refreshToken]
                   ELSE us
    IN  Resolved(written, Draft_findOne(written, id, <<>>).user)

\* UsersService.remove: usersRepository.delete, which never throws
Draft_remove(us, id) == [i \in DOMAIN us \ {id} |-> us[i]]

\* what signup resolves or rejects with, and whether it called create
Signed(err, us, tokens, createCalled) ==
    [err |-> err, users |-> us, tokens |-> tokens,
     createCalled |-> createCalled]

\* generateTokensByUserId and storeRefreshToken for the created user
Draft_signup_created(made, t) ==
    IF made.err # "none" THEN Signed(made.err, made.users, NoTokens, TRUE)
    ELSE Signed("none",
                Draft_update(made.users, made.user.id,
                             Pair(made.user, t).refreshToken).users,
                Pair(made.user, t), TRUE)

\* signup after the lookup inside try: the catch block runs when the try
\* block threw, which it does when the lookup failed or found a user;
\* otherwise the function ends without a return value
Draft_signup_looked(us, nid, username, password, t, existing) ==
    IF existing.err # "none" \/ existing.user.id # 0
    THEN Draft_signup_created(Draft_create(us, nid, username, password), t)
    ELSE Signed("none", us, NoTokens, FALSE)

Draft_signup(us, nid, username, password, t) ==
    Draft_signup_looked(us, nid, username, password, t,
                        Draft_findOne(us, 0, username))

\* generateDeletionToken: deletionTokens.set(token, userId)
Draft_generateDeletionToken(tokens, token, userId) ==
    (token :> userId) @@ tokens

\* validateDeletionToken: deletionTokens.get(token) ?? null, null being 0
Draft_validateDeletionToken(tokens, token) ==
    IF token \in DOMAIN tokens THEN tokens[token] ELSE 0

\* variant: the token stays in the map
Draft_invalidateDeletionToken_kept(tokens, token) ==
    tokens

\* invalidateDeletionToken: deletionTokens.delete(token)
Draft_invalidateDeletionToken(tokens, token) ==
    [k \in DOMAIN tokens \ {token} |-> tokens[k]]

\* what deleteUser leaves behind: its error, the users and the token map
Removed(err, us, tokens) == [err |-> err, users |-> us, deletionTokens |-> tokens]

Draft_deleteUser_found(us, tokens, userId, password, token, found) ==
    IF found.user.id = 0 THEN Removed("NotFound", us, tokens)
    ELSE IF password # found.user.password
    THEN Removed("Unauthorized", us, tokens)
    ELSE Removed("none", Draft_remove(us, userId),
                 Draft_invalidateDeletionToken(tokens, token))

Draft_deleteUser(us, tokens, userId, password, token, confirmation) ==
    IF confirmation # "yes" THEN Removed("Unauthorized", us, tokens)
    ELSE IF Draft_validateDeletionToken(tokens, token) # userId
    THEN Removed("Unauthorized", us, tokens)
    ELSE Draft_deleteUser_found(us, tokens, userId, password, token,
                                Draft_findOne(us, userId, <<>>))

\* what a client can send as a deletion token: a value that was or will be
\* generated, or 0, a string that never is
TokenInputs == 0..MaxTokens

Confirmations == {"yes", "no"}

\* a user is put in the store through UsersService.create
DraftCreate(username, password) ==
    /\ Draft_findOne(users, 0, username).user.id # 0
       \/ nextId <= MaxUsers
    /\ users' = Draft_create(users, nextId, username, password).users
    /\ nextId' = IF nextId \in DOMAIN users' THEN nextId + 1 ELSE nextId
    /\ out' = [op |-> "create", username |-> username,
               err |-> Draft_create(users, nextId, username, password).err]
    /\ UNCHANGED <<now, issued, last, pc, loc, roles, nextRoleId, draft>>

Signup(username, password) ==
    /\ Draft_findOne(users, 0, username).user.id # 0
       \/ nextId <= MaxUsers
    /\ users' = Draft_signup(users, nextId, username, password, now).users
    /\ nextId' = IF nextId \in DOMAIN users' THEN nextId + 1 ELSE nextId
    /\ out' = [op |-> "signup", username |-> username,
               err |-> Draft_signup(users, nextId, username, password, now).err,
               tokens |->
                   Draft_signup(users, nextId, username, password, now).tokens,
               createCalled |->
                   Draft_signup(users, nextId, username, password,
                                now).createCalled]
    /\ UNCHANGED <<now, issued, last, pc, loc, roles, nextRoleId, draft>>

\* generateDeletionToken: a fresh uuid, and a timer due in five minutes
GenerateDeletionToken(userId) ==
    /\ draft.nextToken <= MaxTokens
    /\ draft' = [draft EXCEPT
          !.deletionTokens =
              Draft_generateDeletionToken(@, draft.nextToken, userId),
          !.timers = (draft.nextToken :> now + DeletionTtl) @@ @,
          !.minted = (draft.nextToken :> userId) @@ @,
          !.nextToken = @ + 1]
    /\ out' = [op |-> "generateDeletionToken", userId |-> userId,
               token |-> draft.nextToken]
    /\ UNCHANGED <<users, nextId, now, issued, last, pc, loc, roles, nextRoleId>>

\* the setTimeout callback of a token runs once its five minutes are over
TimerFires(token) ==
    /\ token \in DOMAIN draft.timers
    /\ now >= draft.timers[token]
    /\ draft' = [draft EXCEPT
          !.deletionTokens = [k \in DOMAIN @ \ {token} |-> @[k]],
          !.timers = [k \in DOMAIN @ \ {token} |-> @[k]],
          !.fired = @ \cup {token}]
    /\ UNCHANGED <<users, nextId, now, issued, last, pc, loc,
                   roles, nextRoleId, out>>

DeleteUser(userId, password, token, confirmation) ==
    /\ users' = Draft_deleteUser(users, draft.deletionTokens, userId, password,
                                 token, confirmation).users
    /\ draft' = [draft EXCEPT !.deletionTokens =
                    Draft_deleteUser(users, draft.deletionTokens, userId,
                                     password, token,
                                     confirmation).deletionTokens]
    /\ out' = [op |-> "deleteUser", userId |-> userId, password |-> password,
               token |-> token, confirmation |-> confirmation,
               err |-> Draft_deleteUser(users, draft.deletionTokens, userId,
                                        password, token, confirmation).err]
    /\ UNCHANGED <<nextId, now, issued, last, pc, loc, roles, nextRoleId>>

\* five minutes pass
Elapse ==
    /\ now < MaxTicks * DeletionTtl
    /\ now' = now + DeletionTtl
    /\ UNCHANGED <<users, nextId, issued, last, pc, loc,
                   roles, nextRoleId, out, draft>>

NextDraft ==
    \/ \E u \in Usernames : DraftCreate(u, Plain("p1"))
    \/ \E u \in Usernames : Signup(u, Plain("p1"))
    \/ \E i \in UserIds : GenerateDeletionToken(i)
    \/ \E k \in 1..MaxTokens : TimerFires(k)
    \/ \E i \in UserIds, w \in Passwords, k \in TokenInputs,
          c \in Confirmations : DeleteUser(i, w, k, c)
    \/ Elapse

SpecDraft == Init /\ [][NextDraft]_vars

(* ---------------------------------------------------------------------- *)
(* Properties                                                             *)
(* ---------------------------------------------------------------------- *)
Bearer(token) == [bearer |-> TRUE, token |-> token]

\* refreshTokens would hand out a pair for this token now
Accepts(us, token, t) == refreshTokens(us, Bearer(token), t).err = "none"

\* some stored user holds the username, compared without regard to case
Held(us, username) ==
    \E i \in DOMAIN us : toLowerCase(us[i].username) = toLowerCase(username)

RefreshSucceeded == last.op = "refresh" /\ last.err = "none"

\* a step that serves a register request
RegisterStep ==
    /\ last'.op = "register"
    /\ <<users', nextId', issued', last'>> # <<users, nextId, issued, last>>

\* C1: once refreshTokens('Bearer T') has succeeded, the next refreshTokens
\* call with the same T fails with Unauthorized and returns no tokens.
C1_ReusedTokenUnauthorized ==
    RefreshSucceeded =>
        LET again == refreshTokens(users, last.header, now)
        IN  again.err = "Unauthorized" /\ again.tokens = NoTokens

\* C2: when refreshTokens succeeds with the pair (A', R'), the stored
\* reference of the user is R' afterwards and the next refreshTokens call
\* with R' succeeds.
C2_RefreshBindsNewToken ==
    RefreshSucceeded =>
        LET R == last.tokens.refreshToken
        IN  /\ R.sub \in DOMAIN users
            /\ users[R.sub].refreshToken = R
            /\ Accepts(users, R, now)

\* C3: of two overlapping refreshTokens calls that present the same bound
\* token T, at most one returns a token pair.
C3_RacingRefreshAtMostOne ==
    \A p \in Procs, q \in Procs :
        (/\ p # q
         /\ pc[p] = "done" /\ pc[q] = "done"
         /\ loc[p].raced /\ loc[q].raced
         /\ loc[p].header = loc[q].header)
        => ~(loc[p].err = "none" /\ loc[q].err = "none")

\* C4: after changePassword succeeds for a user, every refresh token that
\* was issued to that user before the change is rejected by refreshTokens.
C4_ChangePasswordRevokesTokens ==
    [][\A i \in UserIds, c \in Passwords, n \in Passwords :
          (ChangePassword(i, c, n) /\ last'.err = "none")
          => \A t \in issued : t.sub = i => ~Accepts(users', t, now')]_vars

\* C5: after changePassword succeeds, login with the username and the new
\* password succeeds and login with the former password fails.
C5_NewPasswordLogsIn ==
    (last.op = "changePassword" /\ last.err = "none") =>
        /\ last.id \in DOMAIN users
        /\ users[last.id].password = hashPassword(last.password)
        /\ login(users, users[last.id].username, last.password, now).err = "none"
        /\ login(users, users[last.id].username, last.former, now).err # "none"

\* C6: registering a username that a stored user already holds, in any
\* mix of upper and lower case, fails with Conflict and leaves the stored
\* users unchanged, so the two registrations create exactly one user.
C6_SecondRegistrationConflicts ==
    [][(RegisterStep /\ Held(users, last'.username))
       => /\ last'.err = "Conflict"
          /\ last'.tokens = NoTokens
          /\ users' = users
          /\ Cardinality({ i \in DOMAIN users' :
                 toLowerCase(users'[i].username)
                    = toLowerCase(last'.username) }) = 1]_vars

C6_Witness ==
    /\ last.op = "register" /\ last.err = "Conflict"
    /\ last.username # toLowerCase(last.username)
    /\ \E i \in DOMAIN users : users[i].username = toLowerCase(last.username)

\* C7: register with a username no stored user holds creates exactly one
\* user, stored under the lowercase username, writes exactly one refresh
\* token binding, for that user, and returns a pair whose subject is the
\* new user's id.
C7_RegisterCreatesOneUser ==
    [][(RegisterStep /\ ~Held(users, last'.username))
       => /\ last'.err = "none"
          /\ nextId \notin DOMAIN users
          /\ DOMAIN users' = DOMAIN users \cup {nextId}
          /\ users'[nextId].id = nextId
          /\ users'[nextId].username = toLowerCase(last'.username)
          /\ users'[nextId].refreshToken = last'.tokens.refreshToken
          /\ \A i \in DOMAIN users : users'[i] = users[i]
          /\ last'.tokens.refreshToken.kind = "refresh"
          /\ last'.tokens.refreshToken.sub = nextId
          /\ last'.tokens.accessToken.kind = "access"
          /\ last'.tokens.accessToken.sub = nextId]_vars

C7_Witness ==
    /\ last.op = "register" /\ last.err = "none"
    /\ last.username # toLowerCase(last.username)
    /\ last.tokens.refreshToken.sub \in DOMAIN users
    /\ users[last.tokens.refreshToken.sub].username = toLowerCase(last.username)

\* C8: login fails with Unauthorized both when no user has the lowercase
\* username and when the password does not verify; in both cases no token
\* is issued and no stored user changes.
C8_LoginFailuresUnauthorized ==
    [][\A u \in Usernames, p \in Passwords :
          (/\ Login(u, p)
           /\ \/ findUserByUsernameOptional(users, u).id = 0
              \/ ~validatePassword(p, findUserByUsernameOptional(users, u).password))
          => /\ last'.err = "Unauthorized"
             /\ last'.tokens = NoTokens
             /\ users' = users
             /\ issued' = issued]_vars

\* C9: whenever register, login or changePassword succeeds with the pair
\* (A, R), the stored refresh token reference of the user is R afterwards.
C9_SuccessBindsReturnedToken ==
    (last.op \in {"register", "login", "changePassword"} /\ last.err = "none")
    => LET R == last.tokens.refreshToken
       IN  /\ R.kind = "refresh"
           /\ R.sub \in DOMAIN users
           /\ users[R.sub].refreshToken = R

\* a login that replaced the reference left by an earlier response
C9_Witness ==
    /\ last.op = "login" /\ last.err = "none"
    /\ \E t \in issued :
          /\ t.sub = last.tokens.refreshToken.sub
          /\ t # last.tokens.refreshToken
    /\ users[last.tokens.refreshToken.sub].refreshToken = last.tokens.refreshToken

\* C10: for each user at most one refresh token value is accepted by
\* refreshTokens, the stored reference; and a refresh token that was issued
\* to the user before the latest bind or clear is not accepted.
C10_OnlyLatestTokenAccepted ==
    /\ [][\A t \in Presentable :
            Accepts(users, t, now)
            => t.sub \in DOMAIN users /\ users[t.sub].refreshToken = t]_vars
    /\ [][\A u \in Usernames, p \in Passwords :
            (Login(u, p) /\ last'.err = "none")
            => \A t \in issued :
                  t.sub = last'.tokens.refreshToken.sub
                  => ~Accepts(users', t, now')]_vars
    /\ [][\A i \in UserIds, c \in Passwords, n \in Passwords :
            (ChangePassword(i, c, n) /\ last'.err = "none")
            => \A t \in issued : t.sub = i => ~Accepts(users', t, now')]_vars
    /\ [][\A h \in Headers :
            (RefreshTokens(h) /\ last'.err = "none")
            => \A t \in issued :
                  t.sub = h.token.sub => ~Accepts(users', t, now')]_vars

(* ---------------------------------------------------------------------- *)
(* Properties of the permissions guard                                    *)
(* ---------------------------------------------------------------------- *)
\* the routes that ask for at least one permission
Guarded == { req \in Requirements : req.present /\ req.names # {} }

\* the user holds at least one of the permissions the route asks for
Intersects(us, rs, userId, req) ==
    userPermissions(us, rs, userId) \cap req.names # {}

\* C11: for a stored user and a non-empty required set, canActivate allows
\* exactly when the permissions of the user's roles intersect the required
\* set, and denies otherwise (any-of, not all-of).
C11_AllowIffIntersects ==
    \A req \in Guarded : \A i \in DOMAIN users :
        canActivate(users, roles, req, i, TRUE) =
            IF Intersects(users, roles, i, req) THEN "allow" ELSE "deny"

\* the guard has allowed a user who holds role_read but not user_create on
\* a route asking for both, and has denied a user without roles
C11_Witness ==
    /\ out.op = "canActivate"
    /\ out.outcome = "allow"
    /\ out.requiredPermissions = [present |-> TRUE, names |-> PermissionNames]
    /\ out.userId \in DOMAIN users
    /\ userPermissions(users, roles, out.userId) = {"role_read"}
    /\ \E j \in DOMAIN users :
          users[j].roles = {}
          /\ canActivate(users, roles, out.requiredPermissions, j, TRUE) = "deny"

\* C12: canActivate allows whenever the required set is empty, be it absent
\* metadata or an empty list, with or without a subject on the request.
C12_EmptyRequirementAllows ==
    (out.op = "canActivate" /\ out.requiredPermissions.names = {}
     /\ out.storeUp)
        => out.outcome = "allow"

\* C13: with a non-empty required set canActivate answers deny whenever the
\* user cannot be resolved: no subject, a subject that matches no stored
\* user, or a store lookup that fails.
C13_UnresolvedUserDenied ==
    (out.op = "canActivate" /\ out.requiredPermissions \in Guarded
     /\ (out.userId = 0 \/ out.userId \notin DOMAIN users \/ ~out.storeUp))
        => out.outcome = "deny"

\* C14: the decision follows the store as it is now: once a change of the
\* roles leaves a user without any required permission the next canActivate
\* denies, and once a change gives the user one the next canActivate allows,
\* whatever was decided before.
C14_NextDecisionFollowsStore ==
    [][\A req \in Guarded : \A i \in DOMAIN users \cap DOMAIN users' :
          /\ (Intersects(users, roles, i, req)
              /\ ~Intersects(users', roles', i, req))
                => canActivate(users', roles', req, i, TRUE) = "deny"
          /\ (~Intersects(users, roles, i, req)
              /\ Intersects(users', roles', i, req))
                => canActivate(users', roles', req, i, TRUE) = "allow"]_vars

\* a user was allowed on a route and has lost every permission the route
\* asks for since
C14_Witness ==
    /\ out.op = "canActivate"
    /\ out.requiredPermissions \in Guarded
    /\ out.userId \in DOMAIN users
    /\ out.storeUp
    /\ out.outcome = "allow"
    /\ ~Intersects(users, roles, out.userId, out.requiredPermissions)

(* ---------------------------------------------------------------------- *)
(* Properties of profile and deletion                                     *)
(* ---------------------------------------------------------------------- *)
\* a step that serves a deleteAccount request successfully
DeleteStep ==
    /\ last'.op = "deleteAccount"
    /\ last'.err = "none"
    /\ last' # last

\* the ids of the users that were deleted: ids are never handed out twice
Deleted == (1..(nextId - 1)) \ DOMAIN users

\* C15: after deleteAccount(userId, correctPassword) has succeeded the user
\* is gone: getProfile(userId) fails with NotFound from then on, login with
\* the former username and password fails, and refreshTokens fails for every
\* refresh token that was issued to that user.
C15_DeletedAccountIsGone ==
    /\ [][DeleteStep =>
            /\ last'.id \notin DOMAIN users'
            /\ getProfile(users', last'.id).err = "NotFound"
            /\ login(users', users[last'.id].username, last'.password,
                     now').err # "none"
            /\ \A t \in issued' :
                  t.sub = last'.id => ~Accepts(users', t, now')]_vars
    /\ [](\A d \in Deleted :
            /\ getProfile(users, d).err = "NotFound"
            /\ \A t \in issued : t.sub = d => ~Accepts(users, t, now))

\* an account that had been given a refresh token was deleted, and a later
\* getProfile for it has been answered
C15_Witness ==
    /\ last.op = "deleteAccount"
    /\ last.err = "none"
    /\ last.id \in Deleted
    /\ \E t \in issued : t.sub = last.id
    /\ out.op = "getProfile"
    /\ out.userId = last.id
    /\ out.err = "NotFound"

\* C16: deleteAccount with a password that does not verify fails with
\* Unauthorized and leaves the stored users as they were; deleteAccount for
\* an id that no user has fails with NotFound.
C16_DeleteAccountFailures ==
    [][\A i \in UserIds : \A p \in Passwords :
          DeleteAccount(i, p) =>
            /\ i \notin DOMAIN users
                 => last'.err = "NotFound" /\ users' = users
            /\ (i \in DOMAIN users /\ ~validatePassword(p, users[i].password))
                 => last'.err = "Unauthorized" /\ users' = users]_vars

\* a deletion was refused for a wrong password while users are stored
C16_Witness ==
    /\ last.op = "deleteAccount"
    /\ last.err = "Unauthorized"
    /\ DOMAIN users # {}

\* C17: getProfile(userId) fails with NotFound when no user has the id;
\* otherwise it returns that user's record without the password and the
\* refreshToken fields; it never changes what is stored.
C17_ProfileWithoutSecrets ==
    [][\A i \in UserIds :
          GetProfile(i) =>
            /\ users' = users
            /\ i \notin DOMAIN users
                 => out'.err = "NotFound" /\ out'.profile = NoProfile
            /\ i \in DOMAIN users
                 => /\ out'.err = "none"
                    /\ DOMAIN out'.profile \cap {"password", "refreshToken"} = {}
                    /\ out'.profile.id = i
                    /\ out'.profile.username = users[i].username]_vars

\* the profile of a user with a bound refresh token was returned
C17_Witness ==
    /\ out.op = "getProfile"
    /\ out.err = "none"
    /\ out.userId \in DOMAIN users
    /\ users[out.userId].refreshToken # Null
    /\ out.profile.username = users[out.userId].username

(* ---------------------------------------------------------------------- *)
(* Properties of refreshTokens: rejected headers and tokens               *)
(* ---------------------------------------------------------------------- *)
\* the token verifies against the refresh secret now
Verifies(token, t) == verifyAsync(token, "refresh", t).err = "none"

\* the token verifies and names a stored user whose reference is another
\* value, null included
Mismatched(us, token, t) ==
    /\ Verifies(token, t)
    /\ token.sub \in DOMAIN us
    /\ us[token.sub].refreshToken # token

\* refreshTokens failed with Unauthorized, gave no tokens and stored nothing
Refused(us, res) ==
    res.err = "Unauthorized" /\ res.tokens = NoTokens /\ res.users = us

\* C18: refreshTokens with a header 'Bearer <token>' whose token does not
\* verify against the refresh secret (malformed, wrong signature, expired)
\* fails with Unauthorized and changes nothing that is stored.
C18_UnverifiedTokenUnauthorized ==
    [][\A h \in Headers :
          (RefreshTokens(h) /\ h.bearer /\ ~Verifies(h.token, now))
            => last'.err = "Unauthorized" /\ users' = users]_vars

\* C19: refreshTokens fails with Unauthorized, issues no tokens and leaves
\* the stored reference as it was when the header does not start with
\* 'Bearer ', and when the verified token is not the stored reference of
\* its user (a null reference included).
C19_BadHeaderOrMismatchRefused ==
    \A h \in Headers :
        (~h.bearer \/ Mismatched(users, h.token, now))
            => Refused(users, refreshTokens(users, h, now))

\* a refresh was refused while a user presents a verifying token of theirs
\* and the stored reference is null
C19_Witness ==
    /\ last.op = "refresh"
    /\ last.err = "Unauthorized"
    /\ \E t \in issued :
          Mismatched(users, t, now) /\ users[t.sub].refreshToken = Null

\* C20: no access token that generateTokens has produced is ever accepted
\* by refreshTokens.
C20_AccessTokenNeverRefreshes ==
    /\ \A t \in issued : ~Accepts(users, AccessOf(t), now)
    /\ (last.op \in {"register", "login", "refresh", "changePassword"}
        /\ last.err = "none")
          => ~Accepts(users, last.tokens.accessToken, now)

\* a pair was handed out whose refresh token is accepted now
C20_Witness ==
    /\ last.op \in {"register", "login", "changePassword"}
    /\ last.err = "none"
    /\ last.tokens.accessToken # last.tokens.refreshToken
    /\ Accepts(users, last.tokens.refreshToken, now)

(* ---------------------------------------------------------------------- *)
(* Properties of changePassword and of the error kinds                    *)
(* ---------------------------------------------------------------------- *)
\* C21: changePassword fails with Unauthorized whenever currentPassword does
\* not verify against the stored hash, whatever newPassword is (equal to
\* currentPassword included), and then leaves the stored password and the
\* refresh reference as they were; when currentPassword verifies and
\* newPassword equals it the call fails with Conflict and changes nothing.
C21_WrongCurrentPasswordUnauthorized ==
    [][\A i \in UserIds, c \in Passwords, n \in Passwords :
          (ChangePassword(i, c, n) /\ i \in DOMAIN users) =>
            /\ ~validatePassword(c, users[i].password)
                 => last'.err = "Unauthorized" /\ users' = users
            /\ (validatePassword(c, users[i].password) /\ n = c)
                 => last'.err = "Conflict" /\ users' = users]_vars

\* C22: at every auth endpoint a Conflict, Unauthorized or NotFound raised by
\* AuthService reaches the HTTP caller as the same kind; in particular
\* registering a taken username through POST /auth/register is answered
\* with Conflict.
C22_DomainErrorsReachCaller ==
    last.err \in {"Conflict", "Unauthorized", "NotFound"}
        => AuthController(last.op, last.err) = last.err

(* ---------------------------------------------------------------------- *)
(* Properties of the stored users                                         *)
(* ---------------------------------------------------------------------- *)
\* C24: in every reachable state each stored user's password is an output of
\* the hash function and is none of the plaintext passwords that register,
\* changePassword or UsersService.update are given.
C24_PasswordsStoredHashed ==
    \A i \in DOMAIN users :
        /\ users[i].password \notin Passwords
        /\ \E p \in Passwords :
              users[i].password \in { hashPassword(p),
                                      hashPassword(hashPassword(p)) }

\* passwords have been written by register, by changePassword and by update
C24_Witness ==
    /\ out.op = "update" /\ out.err = "none" /\ out.dto.hasPassword
    /\ out.id \in DOMAIN users
    /\ users[out.id].password = hashPassword(out.dto.password)
    /\ last.op = "changePassword" /\ last.err = "none"
    /\ last.id \in DOMAIN users /\ last.id # out.id
    /\ validatePassword(hashPassword(last.password), users[last.id].password)

\* C28: UsersService.update(id, {username}) fails with NotFound for an id no
\* user has; for a stored user it succeeds and leaves the username as it
\* was when the new name is the user's own ignoring case, succeeds and
\* stores the lowercase form when no other user holds that form, and fails
\* with Conflict, changing nothing, when another user holds it.
C28_UpdateUsername ==
    [][\A i \in UserIds, dto \in UserDtos :
          (/\ out'.op = "update" /\ out'.id = i /\ out'.dto = dto
           /\ dto.hasUsername
           /\ UpdateUser(i, dto)) =>
            /\ i \notin DOMAIN users
                 => out'.err = "NotFound" /\ users' = users
            /\ (i \in DOMAIN users
                /\ toLowerCase(dto.username) = toLowerCase(users[i].username))
                 => /\ out'.err = "none"
                    /\ users'[i].username = users[i].username
            /\ (i \in DOMAIN users
                /\ toLowerCase(dto.username) # toLowerCase(users[i].username)
                /\ \A j \in DOMAIN users \ {i} :
                      users[j].username # toLowerCase(dto.username))
                 => /\ out'.err = "none"
                    /\ DOMAIN users' = DOMAIN users
                    /\ users'[i].username = toLowerCase(dto.username)
                    /\ \A j \in DOMAIN users \ {i} : users'[j] = users[j]
            /\ (i \in DOMAIN users
                /\ \E j \in DOMAIN users \ {i} :
                      users[j].username = toLowerCase(dto.username))
                 => out'.err = "Conflict" /\ users' = users]_vars

\* a user was renamed with a name typed in capitals while another user is
\* stored: the tokens issued to the user still carry the former name
C28_Witness ==
    /\ out.op = "update" /\ out.err = "none" /\ out.dto.hasUsername
    /\ out.dto.username # toLowerCase(out.dto.username)
    /\ out.id \in DOMAIN users
    /\ users[out.id].username = toLowerCase(out.dto.username)
    /\ DOMAIN users # {out.id}
    /\ \E t \in issued : t.sub = out.id /\ t.username # users[out.id].username

\* C29: create of users.service.ts, called with a username no stored user
\* holds, saves exactly one new user with the lowercase username and the
\* hashed password; called with a username that is held, it fails with
\* Conflict.
C29_CreateSavesOrConflicts ==
    [][\A u \in Usernames, p \in Passwords :
          (/\ out'.op = "create" /\ out'.username = u
           /\ CreateUser(u, p)) =>
            /\ Held(users, u) => out'.err = "Conflict" /\ users' = users
            /\ ~Held(users, u)
                 => /\ out'.err = "none"
                    /\ DOMAIN users' = DOMAIN users \cup {nextId}
                    /\ users'[nextId].username = toLowerCase(u)
                    /\ users'[nextId].password = hashPassword(p)
                    /\ \A i \in DOMAIN users : users'[i] = users[i]]_vars

(* ---------------------------------------------------------------------- *)
(* Properties of login racing with other requests                         *)
(* ---------------------------------------------------------------------- *)
\* C23: an error raised inside a public AuthService operation reaches the
\* caller unchanged when it is a Conflict, Unauthorized or NotFound raised
\* by the service or the user store, the storing of the refresh token
\* included, and as an internal error when it is anything else.
C23_DomainErrorsUnchanged ==
    \A p \in Procs :
        pc[p] = "lgDone" =>
            /\ loc[p].raised \in {"Conflict", "Unauthorized", "NotFound"}
                 => loc[p].err = loc[p].raised
            /\ loc[p].raised \notin {"none", "Conflict", "Unauthorized", "NotFound"}
                 => loc[p].err = "Internal"

\* C27: with a store that never fails, a login with correct credentials
\* that runs while refreshTokens runs for the same user returns a token
\* pair: it never fails because the read back of storeRefreshToken finds
\* the reference cleared by the other call.
C27_LoginSurvivesConcurrentClear ==
    \A p \in Procs :
        (pc[p] = "lgDone" /\ loc[p].user.id # 0) => loc[p].err = "none"

\* C26: however concurrent register calls and username changes interleave,
\* no two stored users have the same lowercase username, even when two
\* calls with usernames equal ignoring case both pass the pre-check; the
\* call whose save the store rejects fails with Conflict.
C26_UniqueUsernamesUnderRace ==
    /\ \A i \in DOMAIN users, j \in DOMAIN users :
          i # j => toLowerCase(users[i].username) # toLowerCase(users[j].username)
    /\ \A p \in Procs :
          (pc[p] \in {"rgDone", "udDone"} /\ loc[p].raised = "Error")
            => loc[p].err = "Conflict"

(* ---------------------------------------------------------------------- *)
(* Properties of the two-step deletion variant                            *)
(* ---------------------------------------------------------------------- *)
\* C25: deleteUser(userId, password, token, confirmation) removes the user
\* only if the token was generated for that userId, its expiry callback has
\* not fired, the confirmation is 'yes' and the password is the stored one;
\* after a successful deleteUser the token is absent from the token map;
\* a token whose expiry has fired is rejected with Unauthorized.
C25_DeletionTokenGuardsDelete ==
    [][\A i \in UserIds, w \in Passwords, k \in TokenInputs, c \in Confirmations :
          (/\ out'.op = "deleteUser" /\ out'.userId = i /\ out'.password = w
           /\ out'.token = k /\ out'.confirmation = c
           /\ DeleteUser(i, w, k, c)) =>
            /\ users' # users
                 => /\ k \in DOMAIN draft.minted
                    /\ draft.minted[k] = i
                    /\ k \notin draft.fired
                    /\ c = "yes"
                    /\ i \in DOMAIN users
                    /\ w = users[i].password
                    /\ users' = [j \in DOMAIN users \ {i} |-> users[j]]
            /\ out'.err = "none"
                 => /\ i \in DOMAIN users /\ i \notin DOMAIN users'
                    /\ k \notin DOMAIN draft'.deletionTokens
            /\ k \in draft.fired
                 => out'.err = "Unauthorized" /\ users' = users]_vars

\* a user was deleted with a token that is gone from the map since, after
\* another token had expired and had been refused
C25_Witness ==
    /\ out.op = "deleteUser" /\ out.err = "none"
    /\ out.token \in DOMAIN draft.minted
    /\ out.token \notin draft.fired
    /\ out.token \notin DOMAIN draft.deletionTokens
    /\ out.userId \notin DOMAIN users
    /\ \E k \in draft.fired :
          /\ draft.minted[k] \in DOMAIN users
          /\ Draft_deleteUser(users, draft.deletionTokens, draft.minted[k],
                              users[draft.minted[k]].password, k,
                              "yes").err = "Unauthorized"

\* C30: in the deletion-token draft, signup for a username no user holds
\* creates the user, generates a token pair, stores the refresh token for
\* the new user and returns the pair; for a username that is held it fails
\* with Conflict and does not call create.
C30_SignupCreatesOrConflicts ==
    [][\A u \in Usernames, w \in Passwords :
          (/\ out'.op = "signup" /\ out'.username = u
           /\ Signup(u, w)) =>
            /\ (\A i \in DOMAIN users : users[i].username # u)
                 => /\ out'.err = "none"
                    /\ DOMAIN users' = DOMAIN users \cup {nextId}
                    /\ users'[nextId].username = u
                    /\ out'.tokens # NoTokens
                    /\ users'[nextId].refreshToken = out'.tokens.refreshToken
            /\ (\E i \in DOMAIN users : users[i].username = u)
                 => /\ out'.err = "Conflict"
                    /\ ~out'.createCalled
                    /\ users' = users]_vars

====
